---------------------------- MODULE Spec2Model ----------------------------
(***************************************************************************)
(* A model of the auto-insurance claim workflow of src/workflow.py: one    *)
(* run of AutoInsuranceWorkflow, from the StartEvent to the StopEvent      *)
(* (Spec, FairSpec), parse_claim on its own (ParseSpec), and two runs side *)
(* by side (ConcSpec, TwinSpec).                                           *)
(*                                                                         *)
(* Text is modelled as a sequence of tokens.  The tokens are chosen so     *)
(* that the two patterns the code searches for, "covered" and              *)
(* "not covered", are the token sequences <<"covered">> and                *)
(* <<"not", " ", "covered">>, and no other token overlaps them.  Money is  *)
(* an integer number of dollars.  An Optional value is <<>> (None) or <<v>>*)
(***************************************************************************)
EXTENDS Integers, Sequences, FiniteSets, TLC

VARIABLES
    cfg,            \* the constructor's arguments as kept by __init__
    input,          \* the claim source named by ev.claim_json_path
    stage,          \* the run state of the pipeline
    outcome,        \* "running", "decision", or the error the run ended with
    ev,             \* the event in flight between two steps
    ctx,            \* the run context (ctx.set / ctx.get)
    rpc,            \* position inside retrieve_policy_text
    qi,             \* number of queries of the for loop already issued
    combined_docs,  \* the dict of retrieve_policy_text, in insertion order
    lastRetrieved,  \* history: id -> content of the last entry retrieved with it
    idOrder,        \* history: the ids the step retrieved, by first and by last entry
    retrFailed,     \* which call of the retriever raised in the step, if any
    overwritten,    \* history: an entry replaced one with its id and another content
    asked,          \* the queries the step gave to the retriever, in order
    llmCalls,       \* history: how each call of the reasoner ended
    log,            \* the LogEvents written to the stream
    executed,       \* history: the steps executed, in order
    result,         \* what run() returned to its caller
    other           \* a second run waiting beside this one, None when alone

vars == << cfg, input, stage, outcome, ev, ctx, rpc, qi, combined_docs,
           lastRetrieved, idOrder, retrFailed, overwritten, asked, llmCalls, log,
           executed, result, other >>

(***************************************************************************)
(* Bounds of the model.                                                    *)
(***************************************************************************)
MaxDocsPerCall == 2     \* documents one call of the retriever returns
MaxLLMQueries == 2      \* queries the reasoner puts in a PolicyQueries

(***************************************************************************)
(* Optional values, text.                                                  *)
(***************************************************************************)
None == << >>
Some(v) == << v >>
IsSome(o) == Len(o) = 1
Get(o) == o[1]

Max(a, b) == IF a >= b THEN a ELSE b

\* str.lower() on one token: the tokens of the model that hold capitals.
LowerTok(t) ==
    CASE t = "Covered" -> "covered"
      [] t = "COVERED" -> "covered"
      [] t = "NOT"     -> "not"
      [] t = "Not"     -> "not"
      [] t = "Collision" -> "collision"
      [] OTHER         -> t

\* str.lower()
Lower(s) == [i \in DOMAIN s |-> LowerTok(s[i])]

\* pat in s
Contains(s, pat) ==
    \E i \in 1..(Len(s) - Len(pat) + 1) : SubSeq(s, i, i + Len(pat) - 1) = pat

\* f"{x:.2f}" of an amount in whole dollars
Fmt2f(x) == << ToString(x), ".00" >>

RECURSIVE Join(_, _)
\* sep.join(parts), the parts being single tokens
Join(parts, sep) ==
    IF Len(parts) = 0 THEN << >>
    ELSE IF Len(parts) = 1 THEN << parts[1] >>
    ELSE << parts[1], sep >> \o Join(Tail(parts), sep)

(***************************************************************************)
(* The claim source and parse_claim.                                       *)
(***************************************************************************)
StrV(s) == [t |-> "str", s |-> s, n |-> 0]
NumV(n) == [t |-> "num", s |-> << >>, n |-> n]
\* a JSON string that holds the digits of n
NumStrV(n) == [t |-> "str", s |-> << ToString(n) >>, n |-> n]

RequiredStr == {"claim_number", "policy_number", "claimant_name",
                "date_of_loss", "loss_description"}

\* data.pop(old) stored under new, when old is a key of data
Rename(data, old, new) ==
    IF old \in DOMAIN data
    THEN [k \in (DOMAIN data \ {old}) \cup {new} |->
             IF k = new THEN data[old] ELSE data[k]]
    ELSE data

\* RenameLegacy, were the rename of "description" missing
RenameLegacyThree(data) ==
    Rename(Rename(Rename(data,
        "damage_amount", "estimated_repair_cost"),
        "policyholder_name", "claimant_name"),
        "date_of_incident", "date_of_loss")

\* the four renames of parse_claim, in the order of the code
RenameLegacy(data) ==
    Rename(Rename(Rename(Rename(data,
        "damage_amount", "estimated_repair_cost"),
        "policyholder_name", "claimant_name"),
        "date_of_incident", "date_of_loss"),
        "description", "loss_description")

\* what the validation of a float field accepts: a number, or a string that
\* reads as one
IsFloatLike(v) == v.t = "num" \/ (v.t = "str" /\ v.s = << ToString(v.n) >>)

\* ClaimInfo.model_validate(data) succeeds
ValidatesAsClaimInfo(data) ==
    /\ \A k \in RequiredStr : k \in DOMAIN data /\ data[k].t = "str"
    /\ "estimated_repair_cost" \in DOMAIN data
    /\ IsFloatLike(data["estimated_repair_cost"])
    /\ ("vehicle_details" \in DOMAIN data => data["vehicle_details"].t = "str")

ClaimInfo(data) ==
    [claim_number          |-> data["claim_number"].s,
     policy_number         |-> data["policy_number"].s,
     claimant_name         |-> data["claimant_name"].s,
     date_of_loss          |-> data["date_of_loss"].s,
     loss_description      |-> data["loss_description"].s,
     estimated_repair_cost |-> data["estimated_repair_cost"].n,
     vehicle_details       |-> IF "vehicle_details" \in DOMAIN data
                               THEN Some(data["vehicle_details"].s) ELSE None]

\* parse_claim(file_path): the ClaimInfo, or the exception raised
parse_claim(file) ==
    IF ~file.exists THEN [ok |-> FALSE, error |-> "FileNotFoundError"]
    ELSE IF ~file.json THEN [ok |-> FALSE, error |-> "ValueError"]
    ELSE LET data == RenameLegacy(file.data)
         IN  IF ValidatesAsClaimInfo(data)
             THEN [ok |-> TRUE, claim_info |-> ClaimInfo(data)]
             ELSE [ok |-> FALSE, error |-> "ValueError"]

\* The claim sources of the model.
ClaimData(cn, cost) ==
    [k \in RequiredStr \cup {"estimated_repair_cost"} |->
        CASE k = "claim_number"          -> StrV(cn)
          [] k = "policy_number"         -> StrV(<< "P-1" >>)
          [] k = "claimant_name"         -> StrV(<< "John" >>)
          [] k = "date_of_loss"          -> StrV(<< "2025-06-20" >>)
          [] k = "loss_description"      -> StrV(<< "Collision" >>)
          [] k = "estimated_repair_cost" -> NumV(cost)]

LegacyData ==
    [k \in {"claim_number", "policy_number", "policyholder_name",
            "date_of_incident", "description", "damage_amount"} |->
        CASE k = "claim_number"      -> StrV(<< "C-2" >>)
          [] k = "policy_number"     -> StrV(<< "P-1" >>)
          [] k = "policyholder_name" -> StrV(<< "Alice" >>)
          [] k = "date_of_incident"  -> StrV(<< "2025-06-20" >>)
          [] k = "description"       -> StrV(<< "Collision" >>)
          [] k = "damage_amount"     -> NumV(5000)]

Drop(data, key) == [k \in DOMAIN data \ {key} |-> data[k]]

PlainNumber == << "C-1" >>
NegatedNumber == << "not", " ", "covered", "-7" >>
Costs == {0, 500, 501, 14999, 15000}

File(data) == [exists |-> TRUE, json |-> TRUE, data |-> data]

ValidFiles ==
    {File(ClaimData(PlainNumber, c)) : c \in Costs}
      \cup {File(ClaimData(NegatedNumber, c)) : c \in {300, 20000}}
      \cup {File(LegacyData)}
      \cup {File([ClaimData(PlainNumber, 500) EXCEPT
                     !["estimated_repair_cost"] = NumStrV(500)])}

InvalidFiles ==
    { File(Drop(ClaimData(PlainNumber, 5000), "claim_number")),
      File([ClaimData(PlainNumber, 5000) EXCEPT
                !["estimated_repair_cost"] = StrV(<< "a lot" >>)]),
      [exists |-> TRUE, json |-> FALSE, data |-> << >>] }

MissingFile == [exists |-> FALSE, json |-> FALSE, data |-> << >>]

Files == ValidFiles \cup InvalidFiles \cup {MissingFile}

(***************************************************************************)
(* The pipeline: steps, the events that trigger them, the run states.      *)
(***************************************************************************)
Steps == << "load_claim_info", "generate_policy_queries", "retrieve_policy_text",
            "generate_recommendation", "finalize_decision", "output_result" >>

States == << "Start", "ClaimLoaded", "QueriesGenerated", "EvidenceRetrieved",
             "RecommendationReady", "DecisionFinalized", "Stopped" >>

\* the event type in a step's signature
Accepts(step) ==
    CASE step = "load_claim_info"         -> "StartEvent"
      [] step = "generate_policy_queries" -> "ClaimInfoEvent"
      [] step = "retrieve_policy_text"    -> "PolicyQueryEvent"
      [] step = "generate_recommendation" -> "PolicyMatchedEvent"
      [] step = "finalize_decision"       -> "RecommendationEvent"
      [] step = "output_result"           -> "DecisionEvent"

\* Emits, were finalize_decision to return the StopEvent itself
EmitsStopEarly(step) ==
    CASE step = "load_claim_info"         -> "ClaimInfoEvent"
      [] step = "generate_policy_queries" -> "PolicyQueryEvent"
      [] step = "retrieve_policy_text"    -> "PolicyMatchedEvent"
      [] step = "generate_recommendation" -> "RecommendationEvent"
      [] step = "finalize_decision"       -> "StopEvent"
      [] step = "output_result"           -> "StopEvent"

\* the event type a step returns
Emits(step) ==
    CASE step = "load_claim_info"         -> "ClaimInfoEvent"
      [] step = "generate_policy_queries" -> "PolicyQueryEvent"
      [] step = "retrieve_policy_text"    -> "PolicyMatchedEvent"
      [] step = "generate_recommendation" -> "RecommendationEvent"
      [] step = "finalize_decision"       -> "DecisionEvent"
      [] step = "output_result"           -> "StopEvent"

\* the run state the pipeline is in once an event of this type is in flight
StateOf(evType) ==
    CASE evType = "StartEvent"          -> "Start"
      [] evType = "ClaimInfoEvent"      -> "ClaimLoaded"
      [] evType = "PolicyQueryEvent"    -> "QueriesGenerated"
      [] evType = "PolicyMatchedEvent"  -> "EvidenceRetrieved"
      [] evType = "RecommendationEvent" -> "RecommendationReady"
      [] evType = "DecisionEvent"       -> "DecisionFinalized"
      [] evType = "StopEvent"           -> "Stopped"

Configs == [policy_retriever : BOOLEAN, llm : BOOLEAN,
            verbose : BOOLEAN, timeout : BOOLEAN]

\* ctx.write_event_to_stream(LogEvent(msg=...)) under "if self._verbose"
Logged(msgs) == IF cfg.verbose THEN log \o msgs ELSE log

Running(step) == outcome = "running" /\ ev.type = Accepts(step)

\* history: no id retrieved yet
NoOrder == [first |-> << >>, last |-> << >>]

\* what a step raises on a value of the reasoner that is not of the class
\* asked for: the attribute read of its verbose message, or else the
\* validation of the event it returns
MalformedError == IF cfg.verbose THEN "AttributeError" ELSE "ValidationError"

Init ==
    /\ cfg \in Configs
    /\ input \in Files
    /\ stage = "Start"
    /\ outcome = "running"
    /\ ev = [type |-> "StartEvent"]
    /\ ctx = [claim_info |-> None, policy_text |-> None]
    /\ rpc = "idle"
    /\ qi = 0
    /\ combined_docs = << >>
    /\ lastRetrieved = [id \in {"d1", "d2"} |-> None]
    /\ idOrder = NoOrder
    /\ retrFailed = "none"
    /\ overwritten = FALSE
    /\ asked = << >>
    /\ llmCalls = << >>
    /\ log = << >>
    /\ executed = << >>
    /\ result = None
    /\ other = None

\* a step raised: the run ends with the exception
Raise(step, error, msgs) ==
    /\ outcome' = error
    /\ log' = Logged(msgs)
    /\ executed' = Append(executed, step)
    /\ UNCHANGED << cfg, input, other, stage, ev, result >>

\* a step returned an event
Return(step, event, msgs) ==
    /\ ev' = event
    /\ stage' = StateOf(event.type)
    /\ log' = Logged(msgs)
    /\ executed' = Append(executed, step)
    /\ UNCHANGED << cfg, input, other >>

load_claim_info ==
    /\ Running("load_claim_info")
    /\ LET parsed == parse_claim(input)
       IN  IF parsed.ok
           THEN /\ ctx' = [ctx EXCEPT !.claim_info = Some(parsed.claim_info)]
                /\ Return("load_claim_info",
                          [type |-> Emits("load_claim_info"),
                           claim_info |-> parsed.claim_info],
                          << << ">> Loading Claim Info" >>,
                             << ">> Loaded claim: " >> \o parsed.claim_info.claim_number >>)
                /\ UNCHANGED << outcome, result >>
           ELSE /\ Raise("load_claim_info", parsed.error,
                         << << ">> Loading Claim Info" >> >>)
                /\ UNCHANGED ctx
    /\ UNCHANGED << rpc, qi, combined_docs, lastRetrieved, idOrder, retrFailed, overwritten, asked, llmCalls >>

(***************************************************************************)
(* generate_policy_queries.                                                *)
(***************************************************************************)
\* _generate_fallback_queries(claim_info)
generate_fallback_queries(claim_info) ==
    [queries |->
       << << "Coverage conditions for " >> \o claim_info.policy_number,
          << "Deductible application for collision damage" >>,
          << "Settlement amount calculation for vehicle damage" >>,
          << "Exclusions for " >> \o Lower(claim_info.loss_description),
          << "Policy limits and coverage details" >> >>]

\* what llm.astructured_predict(PolicyQueries, ...) may do: return a
\* PolicyQueries, raise, or return something that is no PolicyQueries
LLMQuerySets ==
    {[queries |-> [i \in 1..n |-> << "llm query ", ToString(i) >>]] :
        n \in 0..MaxLLMQueries}

LLMQueryOutcomes ==
    {[kind |-> "ok", value |-> q] : q \in LLMQuerySets}
      \cup {[kind |-> "raise"], [kind |-> "malformed"]}

\* QueriesAfter, were the "else" of "if self.llm" missing: "queries" is unbound
QueriesAfterNoElse(hasLLM, out, claim_info) ==
    IF hasLLM
    THEN CASE out.kind = "ok"        -> Some(out.value)
           [] out.kind = "raise"     -> Some(generate_fallback_queries(claim_info))
           [] out.kind = "malformed" -> None
    ELSE None

\* the PolicyQueries the step returns in its PolicyQueryEvent: the one bound to
\* "queries" by the if/try/except; None when the step raises instead, which
\* it does on a value that is no PolicyQueries (len(queries.queries), or the
\* validation of the PolicyQueryEvent)
QueriesAfter(hasLLM, out, claim_info) ==
    IF hasLLM
    THEN CASE out.kind = "ok"        -> Some(out.value)
           [] out.kind = "raise"     -> Some(generate_fallback_queries(claim_info))
           [] out.kind = "malformed" -> None
    ELSE Some(generate_fallback_queries(claim_info))

generate_policy_queries ==
    /\ Running("generate_policy_queries")
    /\ \E out \in IF cfg.llm THEN LLMQueryOutcomes ELSE {[kind |-> "absent"]} :
         /\ llmCalls' = IF cfg.llm THEN Append(llmCalls, out.kind) ELSE llmCalls
         /\ IF QueriesAfter(cfg.llm, out, ev.claim_info) = None
            THEN /\ Raise("generate_policy_queries", MalformedError,
                          << << ">> Generating Policy Queries" >> >>)
            ELSE LET queries == Get(QueriesAfter(cfg.llm, out, ev.claim_info))
                 IN  /\ Return("generate_policy_queries",
                               [type |-> Emits("generate_policy_queries"),
                                queries |-> queries],
                               << << ">> Generating Policy Queries" >> >>
                                 \o (IF out.kind = "raise"
                                     THEN << << ">> LLM query generation failed, using fallback: " >> >>
                                     ELSE << >>)
                                 \o << << ">> Generated ", ToString(Len(queries.queries)), " queries" >> >>)
                     /\ UNCHANGED << outcome, result >>
    /\ UNCHANGED << ctx, rpc, qi, combined_docs, lastRetrieved, idOrder, retrFailed, overwritten, asked >>

(***************************************************************************)
(* retrieve_policy_text.                                                   *)
(***************************************************************************)
top_k == 1

Doc(id, content) == [id_ |-> id, content |-> content]

\* the documents of the model; the last one's get_content() raises
Docs == { Doc("d1", Some("tA")), Doc("d1", Some("tB")),
          Doc("d2", Some("tA")), Doc("d2", None) }

DocLists == UNION {[1..n -> Docs] : n \in 0..MaxDocsPerCall}

\* what a call of the retriever may do
RetrieverOutcomes ==
    {[kind |-> "ok", docs |-> ds] : ds \in DocLists} \cup {[kind |-> "raise", docs |-> << >>]}

\* Put, were it combined_docs.setdefault(d.id_, d): the first entry wins
PutKeepFirst(cd, d) ==
    IF \E i \in DOMAIN cd : cd[i].id_ = d.id_ THEN cd ELSE Append(cd, d)

\* Put, were the entry deleted and inserted anew: the last entry's place
PutMoveToEnd(cd, d) ==
    Append(SelectSeq(cd, LAMBDA x : x.id_ # d.id_), d)

\* combined_docs[d.id_] = d on a dict kept in insertion order
Put(cd, d) ==
    IF \E i \in DOMAIN cd : cd[i].id_ = d.id_
    THEN [i \in DOMAIN cd |-> IF cd[i].id_ = d.id_ THEN d ELSE cd[i]]
    ELSE Append(cd, d)

RECURSIVE PutAll(_, _)
\* for d in docs: combined_docs[d.id_] = d
PutAll(cd, docs) ==
    IF Len(docs) = 0 THEN cd ELSE PutAll(Put(cd, Head(docs)), Tail(docs))

\* get_declarations_docs(policy_retriever, policy_number), given what
\* policy_retriever.retrieve(..., filters=filters) did
get_declarations_docs(out) ==
    IF out.kind = "raise" THEN << >>
    ELSE SubSeq(out.docs, 1, IF Len(out.docs) < top_k THEN Len(out.docs) ELSE top_k)

DeclarationsQuery(claim_info) ==
    << "declarations page for " >> \o claim_info.policy_number

\* _get_fallback_policy_text(claim_info)
get_fallback_policy_text(claim_info) ==
    << "\nCALIFORNIA PERSONAL AUTO POLICY\nPolicy Number: " >>
      \o claim_info.policy_number
      \o << "\n\nPART D - COVERAGE FOR DAMAGE TO YOUR AUTO ... \n        " >>

\* history: the last entry of docs carrying id, if any, else what was known
LastWith(known, docs, id) ==
    LET I == {i \in DOMAIN docs : docs[i].id_ = id}
    IN  IF I = {} THEN known[id]
        ELSE Some(docs[CHOOSE i \in I : \A j \in I : j <= i])

Seen(docs) == [id \in DOMAIN lastRetrieved |-> LastWith(lastRetrieved, docs, id)]

\* history: seq without id
Without(seq, id) == SelectSeq(seq, LAMBDA x : x # id)

RECURSIVE Ordered(_, _)
\* history: the ids by their first entry and by their last entry, docs added
Ordered(ord, docs) ==
    IF Len(docs) = 0 THEN ord
    ELSE LET id == Head(docs).id_
         IN  Ordered([first |-> IF \E i \in DOMAIN ord.first : ord.first[i] = id
                                THEN ord.first ELSE Append(ord.first, id),
                      last  |-> Append(Without(ord.last, id), id)],
                     Tail(docs))

\* history: idOrder after docs, kept for a run on its own
OrderAfter(docs) == IF other = None THEN Ordered(idOrder, docs) ELSE idOrder

\* history: some entry of docs follows an entry with its id and another content
Overwrites(docs) ==
    \E i \in DOMAIN docs :
       \/ \E j \in 1..(i - 1) : docs[j].id_ = docs[i].id_ /\ docs[j] # docs[i]
       \/ /\ IsSome(lastRetrieved[docs[i].id_])
          /\ Get(lastRetrieved[docs[i].id_]) # docs[i]

\* the step up to the "if self.policy_retriever"
retrieve_enter ==
    /\ Running("retrieve_policy_text")
    /\ rpc = "idle"
    /\ combined_docs' = << >>
    /\ qi' = 0
    /\ rpc' = IF cfg.policy_retriever THEN "loop" ELSE "join"
    /\ log' = Logged(<< << ">> Retrieving policy sections" >> >>)
    /\ executed' = Append(executed, "retrieve_policy_text")
    /\ UNCHANGED << cfg, input, other, stage, outcome, ev, ctx, lastRetrieved, idOrder,
                    retrFailed, overwritten, asked, llmCalls, result >>

\* one turn of "for query in ev.queries.queries"
retrieve_query ==
    /\ outcome = "running"
    /\ rpc = "loop"
    /\ qi < Len(ev.queries.queries)
    /\ LET query == ev.queries.queries[qi + 1]
       IN  /\ asked' = Append(asked, query)
           /\ \E out \in RetrieverOutcomes :
                IF out.kind = "raise"
                THEN /\ retrFailed' = "query"
                     /\ rpc' = "join"
                     /\ log' = Logged(<< << ">> Query: " >> \o query,
                                         << ">> Policy retrieval failed: " >> >>)
                     /\ UNCHANGED << qi, combined_docs, lastRetrieved, idOrder, overwritten >>
                ELSE /\ combined_docs' = PutAll(combined_docs, out.docs)
                     /\ lastRetrieved' = Seen(out.docs)
                     /\ idOrder' = OrderAfter(out.docs)
                     /\ overwritten' = (overwritten \/ Overwrites(out.docs))
                     /\ qi' = qi + 1
                     /\ log' = Logged(<< << ">> Query: " >> \o query >>)
                     /\ UNCHANGED << rpc, retrFailed >>
    /\ UNCHANGED << cfg, input, other, stage, outcome, ev, ctx, llmCalls, executed, result >>

\* retrieve_declarations, were a failed lookup to start combined_docs anew
retrieve_declarations_reset ==
    /\ outcome = "running"
    /\ rpc = "loop"
    /\ qi = Len(ev.queries.queries)
    /\ asked' = Append(asked, DeclarationsQuery(Get(ctx.claim_info)))
    /\ \E out \in RetrieverOutcomes :
         LET declarations_docs == get_declarations_docs(out)
         IN  /\ combined_docs' = IF out.kind = "raise" THEN << >>
                                 ELSE PutAll(combined_docs, declarations_docs)
             /\ lastRetrieved' = Seen(declarations_docs)
             /\ idOrder' = OrderAfter(declarations_docs)
             /\ overwritten' = (overwritten \/ Overwrites(declarations_docs))
             /\ retrFailed' = IF out.kind = "raise" THEN "declarations" ELSE retrFailed
    /\ rpc' = "join"
    /\ UNCHANGED << cfg, input, other, stage, outcome, ev, ctx, qi, llmCalls, log,
                    executed, result >>

\* the declarations page, after the last query
retrieve_declarations ==
    /\ outcome = "running"
    /\ rpc = "loop"
    /\ qi = Len(ev.queries.queries)
    /\ asked' = Append(asked, DeclarationsQuery(Get(ctx.claim_info)))
    /\ \E out \in RetrieverOutcomes :
         LET declarations_docs == get_declarations_docs(out)
         IN  /\ combined_docs' = PutAll(combined_docs, declarations_docs)
             /\ lastRetrieved' = Seen(declarations_docs)
             /\ idOrder' = OrderAfter(declarations_docs)
             /\ overwritten' = (overwritten \/ Overwrites(declarations_docs))
             /\ retrFailed' = IF out.kind = "raise" THEN "declarations" ELSE retrFailed
    /\ rpc' = "join"
    /\ UNCHANGED << cfg, input, other, stage, outcome, ev, ctx, qi, llmCalls, log,
                    executed, result >>

Readable(cd) == \A i \in DOMAIN cd : IsSome(cd[i].content)

\* PolicyTextOf, were the "else" branch to leave the text empty
PolicyTextOfNoTemplate(cd, claim_info) ==
    IF Len(cd) > 0
    THEN Join([i \in DOMAIN cd |-> Get(cd[i].content)], "\n\n")
    ELSE << >>

\* the policy text of "if combined_docs: ... else: ..."
PolicyTextOf(cd, claim_info) ==
    IF Len(cd) > 0
    THEN Join([i \in DOMAIN cd |-> Get(cd[i].content)], "\n\n")
    ELSE get_fallback_policy_text(claim_info)

\* from "if combined_docs" to the return, where the step's locals end
retrieve_join ==
    /\ outcome = "running"
    /\ rpc = "join"
    /\ rpc' = "idle"
    /\ qi' = 0
    /\ combined_docs' = << >>
    /\ asked' = << >>
    /\ retrFailed' = "none"
    /\ idOrder' = NoOrder
    /\ IF Readable(combined_docs)
       THEN LET policy_text == PolicyTextOf(combined_docs, Get(ctx.claim_info))
            IN  /\ ctx' = [ctx EXCEPT !.policy_text = Some(policy_text)]
                /\ ev' = [type |-> Emits("retrieve_policy_text"),
                          policy_text |-> policy_text]
                /\ stage' = StateOf(Emits("retrieve_policy_text"))
                /\ log' = Logged(<< << ">> Retrieved characters of policy text" >> >>)
                /\ UNCHANGED outcome
       ELSE \* doc.get_content() raises, outside the try
            /\ outcome' = "StepError"
            /\ UNCHANGED << ctx, ev, stage, log >>
    /\ UNCHANGED << cfg, input, other, lastRetrieved, overwritten, llmCalls, executed,
                    result >>

(***************************************************************************)
(* generate_recommendation.                                                *)
(***************************************************************************)
CoverageLimit == 15000
StandardDeductible == 500

Recommendation(section, summary, deductible, settlement) ==
    [policy_section |-> section, recommendation_summary |-> summary,
     deductible |-> deductible, settlement_amount |-> settlement]

\* generate_fallback_recommendation, were the limit tested with <=
generate_fallback_recommendation_le(claim_info, policy_text) ==
    LET cost == claim_info.estimated_repair_cost
        covered == cost <= CoverageLimit
        deductible == StandardDeductible
        settlement_amount == IF covered THEN Max(0, cost - deductible) ELSE 0
        summary ==
            << "Claim " >> \o claim_info.claim_number \o << " for $" >>
              \o Fmt2f(cost) \o << " damage" >>
              \o (IF covered
                  THEN << " is ", "covered", ". Settlement: $" >>
                         \o Fmt2f(settlement_amount) \o << " after $" >>
                         \o Fmt2f(deductible) \o << " deductible." >>
                  ELSE << " exceeds policy limits and is ", "not", " ",
                          "covered", "." >>)
    IN  Recommendation(<< "PART D - COLLISION COVERAGE" >>, summary,
                       Some(deductible), Some(settlement_amount))

\* _generate_fallback_recommendation(claim_info, policy_text)
generate_fallback_recommendation(claim_info, policy_text) ==
    LET cost == claim_info.estimated_repair_cost
        covered == cost < CoverageLimit
        deductible == StandardDeductible
        settlement_amount == IF covered THEN Max(0, cost - deductible) ELSE 0
        summary ==
            << "Claim " >> \o claim_info.claim_number \o << " for $" >>
              \o Fmt2f(cost) \o << " damage" >>
              \o (IF covered
                  THEN << " is ", "covered", ". Settlement: $" >>
                         \o Fmt2f(settlement_amount) \o << " after $" >>
                         \o Fmt2f(deductible) \o << " deductible." >>
                  ELSE << " exceeds policy limits and is ", "not", " ",
                          "covered", "." >>)
    IN  Recommendation(<< "PART D - COLLISION COVERAGE" >>, summary,
                       Some(deductible), Some(settlement_amount))

\* what llm.astructured_predict(PolicyRecommendation, ...) may do
LLMSummaries ==
    { << "Loss is ", "covered", " under Part D." >>,
      << "Loss is ", "not", " ", "covered", "." >>,
      << "Covered", " in full." >>,
      << "Claim denied." >> }

LLMRecommendations ==
    {Recommendation(<< "PART D" >>, s, Some(250), a) :
        s \in LLMSummaries, a \in {None, Some(0), Some(4500)}}
      \cup {Recommendation(<< "PART D" >>, << "Claim denied." >>, None, a) :
               a \in {None, Some(-50)}}

LLMRecommendationOutcomes ==
    {[kind |-> "ok", value |-> r] : r \in LLMRecommendations}
      \cup {[kind |-> "raise"], [kind |-> "malformed"]}

\* RecommendationAfter, were the except branch to deny instead of falling back
RecommendationAfterDeny(hasLLM, out, claim_info, policy_text) ==
    IF hasLLM
    THEN CASE out.kind = "ok"        -> Some(out.value)
           [] out.kind = "raise"     ->
                Some(Recommendation(<< "PART D" >>, << "Claim denied." >>, None, None))
           [] out.kind = "malformed" -> None
    ELSE Some(generate_fallback_recommendation(claim_info, policy_text))

\* the PolicyRecommendation the step returns in its RecommendationEvent: the
\* one bound to "recommendation" by the if/try/except; None when the step
\* raises instead, which it does on a value that is no PolicyRecommendation
\* (recommendation.model_dump_json(), or the validation of the event)
RecommendationAfter(hasLLM, out, claim_info, policy_text) ==
    IF hasLLM
    THEN CASE out.kind = "ok"        -> Some(out.value)
           [] out.kind = "raise"     ->
                Some(generate_fallback_recommendation(claim_info, policy_text))
           [] out.kind = "malformed" -> None
    ELSE Some(generate_fallback_recommendation(claim_info, policy_text))

generate_recommendation ==
    /\ Running("generate_recommendation")
    /\ \E out \in IF cfg.llm THEN LLMRecommendationOutcomes ELSE {[kind |-> "absent"]} :
         /\ llmCalls' = IF cfg.llm THEN Append(llmCalls, out.kind) ELSE llmCalls
         /\ IF RecommendationAfter(cfg.llm, out, Get(ctx.claim_info),
                                    ev.policy_text) = None
            THEN /\ Raise("generate_recommendation", MalformedError,
                          << << ">> Generating Policy Recommendation" >> >>)
            ELSE LET recommendation ==
                         Get(RecommendationAfter(cfg.llm, out, Get(ctx.claim_info),
                                                 ev.policy_text))
                 IN  /\ Return("generate_recommendation",
                               [type |-> Emits("generate_recommendation"),
                                recommendation |-> recommendation],
                               << << ">> Generating Policy Recommendation" >> >>
                                 \o (IF out.kind = "raise"
                                     THEN << << ">> LLM recommendation failed, using fallback: " >> >>
                                     ELSE << >>)
                                 \o << << ">> Recommendation: " >>
                                          \o recommendation.recommendation_summary >>)
                     /\ UNCHANGED << outcome, result >>
    /\ UNCHANGED << ctx, rpc, qi, combined_docs, lastRetrieved, idOrder, retrFailed, overwritten, asked >>

(***************************************************************************)
(* finalize_decision, output_result.                                       *)
(***************************************************************************)
\* Covered, were the test for "not covered" left out
CoveredNoNegation(rec) ==
    \/ Contains(Lower(rec.recommendation_summary), << "covered" >>)
    \/ /\ IsSome(rec.settlement_amount)
       /\ Get(rec.settlement_amount) > 0

\* Covered, were it decided by the summary alone
CoveredBySummary(rec) ==
    /\ Contains(Lower(rec.recommendation_summary), << "covered" >>)
    /\ ~Contains(Lower(rec.recommendation_summary), << "not", " ", "covered" >>)

\* the "covered" of finalize_decision
Covered(rec) ==
    \/ /\ Contains(Lower(rec.recommendation_summary), << "covered" >>)
       /\ ~Contains(Lower(rec.recommendation_summary), << "not", " ", "covered" >>)
    \/ /\ IsSome(rec.settlement_amount)
       /\ Get(rec.settlement_amount) > 0

\* rec.deductible if rec.deductible is not None else 0.0
DeductibleOf(rec) == IF IsSome(rec.deductible) THEN Get(rec.deductible) ELSE 0

\* PayoutOf, were the test "rec.settlement_amount > 0"
PayoutOfPositive(rec) ==
    IF IsSome(rec.settlement_amount) /\ Get(rec.settlement_amount) > 0
    THEN Get(rec.settlement_amount) ELSE 0

\* rec.settlement_amount if rec.settlement_amount else 0.0
PayoutOf(rec) ==
    IF IsSome(rec.settlement_amount) /\ Get(rec.settlement_amount) # 0
    THEN Get(rec.settlement_amount) ELSE 0

ClaimDecision(claim_info, rec) ==
    [claim_number       |-> claim_info.claim_number,
     covered            |-> Covered(rec),
     deductible         |-> DeductibleOf(rec),
     recommended_payout |-> PayoutOf(rec),
     notes              |-> Some(rec.recommendation_summary)]

finalize_decision ==
    /\ Running("finalize_decision")
    /\ LET decision == ClaimDecision(Get(ctx.claim_info), ev.recommendation)
       IN  Return("finalize_decision",
                  [type |-> Emits("finalize_decision"), decision |-> decision],
                  << << ">> Finalizing Decision" >>,
                     << ">> Final Decision: Covered=",
                        ToString(decision.covered), ", Payout=$" >>
                       \o Fmt2f(decision.recommended_payout) >>)
    /\ UNCHANGED << outcome, result, ctx, rpc, qi, combined_docs, lastRetrieved, idOrder,
                    retrFailed, overwritten, asked, llmCalls >>

\* output_result, and run() handing the StopEvent's result to its caller
output_result ==
    /\ Running("output_result")
    /\ Return("output_result",
              [type |-> Emits("output_result"), decision |-> ev.decision],
              << << ">> Decision: " >> >>)
    /\ result' = Some(ev.decision)
    /\ outcome' = "decision"
    /\ UNCHANGED << ctx, rpc, qi, combined_docs, lastRetrieved, idOrder, retrFailed,
                    overwritten, asked, llmCalls >>

\* timeout_expires, were a deadline to run when none is configured
timeout_expires_unset ==
    /\ outcome = "running"
    /\ outcome' = "WorkflowTimeoutError"
    /\ UNCHANGED << cfg, input, other, stage, ev, ctx, rpc, qi, combined_docs,
                    lastRetrieved, idOrder, retrFailed, overwritten, asked, llmCalls, log, executed,
                    result >>

\* the deadline given to Workflow.__init__ expires before the StopEvent
timeout_expires ==
    /\ cfg.timeout
    /\ outcome = "running"
    /\ outcome' = "WorkflowTimeoutError"
    /\ UNCHANGED << cfg, input, other, stage, ev, ctx, rpc, qi, combined_docs,
                    lastRetrieved, idOrder, retrFailed, overwritten, asked, llmCalls, log, executed,
                    result >>

Next ==
    \/ load_claim_info
    \/ generate_policy_queries
    \/ retrieve_enter
    \/ retrieve_query
    \/ retrieve_declarations
    \/ retrieve_join
    \/ generate_recommendation
    \/ finalize_decision
    \/ output_result
    \/ timeout_expires

Spec == Init /\ [][Next]_vars

\* The event loop runs every step whose event is in flight, and a step that
\* calls no capability returns.
FairSpec == Spec /\ WF_vars(Next)

(***************************************************************************)
(* parse_claim on its own: the run up to the return of load_claim_info, on  *)
(* claim sources written with every choice of legacy and canonical names.   *)
(***************************************************************************)
\* the legacy name of a canonical key, as the renames of parse_claim pair them
LegacyName(k) ==
    CASE k = "estimated_repair_cost" -> "damage_amount"
      [] k = "claimant_name"         -> "policyholder_name"
      [] k = "date_of_loss"          -> "date_of_incident"
      [] k = "loss_description"      -> "description"
      [] OTHER                       -> k

Renamable == {"estimated_repair_cost", "claimant_name", "date_of_loss",
              "loss_description"}

\* data, the keys of S written with their legacy names
WithLegacyNames(data, S) ==
    LET old == {LegacyName(k) : k \in S \cap DOMAIN data}
    IN  [n \in (DOMAIN data \ S) \cup old |->
            IF n \in old
            THEN data[CHOOSE k \in S \cap DOMAIN data : LegacyName(k) = n]
            ELSE data[n]]

\* claim data in canonical names: valid ones, ones with an empty text, with a
\* negative cost, with the cost as a string, and one with a field missing
CanonicalData ==
    { ClaimData(PlainNumber, 500),
      ClaimData(PlainNumber, -100),
      ClaimData(<< >>, 500),
      [ClaimData(PlainNumber, 500) EXCEPT !["loss_description"] = StrV(<< >>)],
      [ClaimData(PlainNumber, 500) EXCEPT !["estimated_repair_cost"] = NumStrV(500)],
      Drop(ClaimData(PlainNumber, 500), "claimant_name") }

ParseFiles ==
    {File(WithLegacyNames(d, S)) : d \in CanonicalData, S \in SUBSET Renamable}

ParseInit ==
    /\ cfg \in {c \in Configs : ~c.policy_retriever /\ ~c.llm /\ ~c.timeout}
    /\ input \in ParseFiles
    /\ stage = "Start"
    /\ outcome = "running"
    /\ ev = [type |-> "StartEvent"]
    /\ ctx = [claim_info |-> None, policy_text |-> None]
    /\ rpc = "idle"
    /\ qi = 0
    /\ combined_docs = << >>
    /\ lastRetrieved = [id \in {"d1", "d2"} |-> None]
    /\ idOrder = NoOrder
    /\ retrFailed = "none"
    /\ overwritten = FALSE
    /\ asked = << >>
    /\ llmCalls = << >>
    /\ log = << >>
    /\ executed = << >>
    /\ result = None
    /\ other = None

ParseNext == load_claim_info

ParseSpec == ParseInit /\ [][ParseNext]_vars

(***************************************************************************)
(* Two runs side by side: the run the event loop is executing, in the      *)
(* variables above, and a second run waiting in "other".                   *)
(***************************************************************************)
\* a run as run() starts it: its own context, empty, and its StartEvent
StartedRun(id, c, file) ==
    [id |-> id, cfg |-> c, input |-> file, stage |-> "Start",
     outcome |-> "running", ev |-> [type |-> "StartEvent"],
     ctx |-> [claim_info |-> None, policy_text |-> None],
     rpc |-> "idle", qi |-> 0, combined_docs |-> << >>,
     lastRetrieved |-> [d \in {"d1", "d2"} |-> None], retrFailed |-> "none",
     idOrder |-> NoOrder,
     overwritten |-> FALSE, asked |-> << >>, llmCalls |-> << >>,
     log |-> << >>, executed |-> << >>, result |-> None]

\* the run the event loop is executing
ThisRun(id) ==
    [id |-> id, cfg |-> cfg, input |-> input, stage |-> stage,
     outcome |-> outcome, ev |-> ev, ctx |-> ctx,
     rpc |-> rpc, qi |-> qi, combined_docs |-> combined_docs,
     lastRetrieved |-> lastRetrieved, retrFailed |-> retrFailed,
     idOrder |-> idOrder,
     overwritten |-> overwritten, asked |-> asked, llmCalls |-> llmCalls,
     log |-> log, executed |-> executed, result |-> result]

\* switch_run, were run() to hand both runs one context
switch_run_shared_ctx ==
    /\ IsSome(other)
    /\ Get(other).outcome = "running"
    /\ LET o == Get(other)
       IN  /\ other' = Some(ThisRun(3 - o.id))
           /\ cfg' = o.cfg /\ input' = o.input /\ stage' = o.stage
           /\ outcome' = o.outcome /\ ev' = o.ev /\ ctx' = ctx
           /\ rpc' = o.rpc /\ qi' = o.qi /\ combined_docs' = o.combined_docs
           /\ lastRetrieved' = o.lastRetrieved /\ retrFailed' = o.retrFailed
           /\ idOrder' = o.idOrder
           /\ overwritten' = o.overwritten /\ asked' = o.asked
           /\ llmCalls' = o.llmCalls /\ log' = o.log
           /\ executed' = o.executed /\ result' = o.result

\* the event loop leaves this run where it is and turns to the other one,
\* each with the context and the stream its own call of run() created
switch_run ==
    /\ IsSome(other)
    /\ Get(other).outcome = "running"
    /\ LET o == Get(other)
       IN  /\ other' = Some(ThisRun(3 - o.id))
           /\ cfg' = o.cfg /\ input' = o.input /\ stage' = o.stage
           /\ outcome' = o.outcome /\ ev' = o.ev /\ ctx' = o.ctx
           /\ rpc' = o.rpc /\ qi' = o.qi /\ combined_docs' = o.combined_docs
           /\ lastRetrieved' = o.lastRetrieved /\ retrFailed' = o.retrFailed
           /\ idOrder' = o.idOrder
           /\ overwritten' = o.overwritten /\ asked' = o.asked
           /\ llmCalls' = o.llmCalls /\ log' = o.log
           /\ executed' = o.executed /\ result' = o.result

\* the configurations of the runs side by side: verbose, one capability at
\* most, a deadline only with none
PairConfigs ==
    {c \in Configs : /\ c.verbose
                     /\ ~(c.policy_retriever /\ c.llm)
                     /\ c.timeout = (~c.policy_retriever /\ ~c.llm)}

FirstFile == File(ClaimData(PlainNumber, 500))
SecondFile == File(LegacyData)

\* the first run in the variables, as Init has it
FirstRunInit ==
    /\ cfg \in PairConfigs
    /\ input = FirstFile
    /\ stage = "Start"
    /\ outcome = "running"
    /\ ev = [type |-> "StartEvent"]
    /\ ctx = [claim_info |-> None, policy_text |-> None]
    /\ rpc = "idle"
    /\ qi = 0
    /\ combined_docs = << >>
    /\ lastRetrieved = [id \in {"d1", "d2"} |-> None]
    /\ idOrder = NoOrder
    /\ retrFailed = "none"
    /\ overwritten = FALSE
    /\ asked = << >>
    /\ llmCalls = << >>
    /\ log = << >>
    /\ executed = << >>
    /\ result = None

\* two runs of one workflow object, on two claims
ConcInit ==
    /\ FirstRunInit
    /\ other = Some(StartedRun(2, cfg, SecondFile))

\* two runs on one claim, of two workflow objects that differ in verbose
TwinInit ==
    /\ FirstRunInit
    /\ other = Some(StartedRun(2, [cfg EXCEPT !.verbose = ~cfg.verbose], FirstFile))

PairNext == Next \/ switch_run

ConcSpec == ConcInit /\ [][PairNext]_vars

TwinSpec == TwinInit /\ [][PairNext]_vars

(***************************************************************************)
(* The properties.                                                         *)
(***************************************************************************)
ValidInput == parse_claim(input).ok
TheClaim == parse_claim(input).claim_info
StageIndex(s) == CHOOSE i \in DOMAIN States : States[i] = s
NoReasoner == ~cfg.llm
Cost == TheClaim.estimated_repair_cost
Count(seq, t) == Cardinality({i \in DOMAIN seq : seq[i] = t})
RetrievedIds == {id \in DOMAIN lastRetrieved : IsSome(lastRetrieved[id])}
DecisionInFlight == ev.type \in {"DecisionEvent", "StopEvent"}

\* C1: the steps run in the fixed order, each once and only after its
\* predecessor has returned, and the run state advances one state at a time
\* along Start .. Stopped; a change of state is the return of the step of
\* the state left.
C1_StagesInOrder ==
    /\ [](/\ Len(executed) <= Len(Steps)
          /\ \A i \in DOMAIN executed : executed[i] = Steps[i]
          /\ Len(executed) \in {StageIndex(stage) - 1, StageIndex(stage)})
    /\ [][stage' # stage =>
            /\ StageIndex(stage') = StageIndex(stage) + 1
            /\ Len(executed') = StageIndex(stage)]_vars

C1_Witness ==
    /\ stage = "Stopped" /\ executed = Steps
    /\ cfg.llm /\ cfg.policy_retriever /\ overwritten

\* C2: with no retriever, no reasoner and no deadline, a run on a valid claim
\* never ends in an error, and it reaches Stopped and returns a Decision.
NoCapabilities == ~cfg.policy_retriever /\ ~cfg.llm /\ ~cfg.timeout

C2_NoCapabilitiesDecides ==
    /\ [](NoCapabilities /\ ValidInput => outcome \in {"running", "decision"})
    /\ (NoCapabilities /\ ValidInput)
          ~> (stage = "Stopped" /\ outcome = "decision" /\ IsSome(result))

C2_Witness ==
    NoCapabilities /\ ValidInput /\ stage = "Stopped" /\ IsSome(result)

\* C3: a run on a valid claim whose reasoner raised on every call ends as the
\* run with no reasoner does: no step of the reasoner ends it in an error,
\* and the Decision it returns is the one the fallback path computes from the
\* claim, which is the Decision of every run with no reasoner.
AllRaised == cfg.llm /\ \A i \in DOMAIN llmCalls : llmCalls[i] = "raise"

NoReasonerDecision ==
    ClaimDecision(TheClaim,
                  generate_fallback_recommendation(TheClaim, Get(ctx.policy_text)))

C4_OnlyFatalErrorsEndARun ==
    ValidInput => outcome \in {"running", "decision", "WorkflowTimeoutError"}

\* C5 (as claimed): when a call of the retriever for a query has raised, the
\* policy text the step stores and emits is the built-in fallback policy text.
C5_FailureAsAbsence ==
    [][(rpc = "join" /\ retrFailed = "query" /\ ev'.type = "PolicyMatchedEvent") =>
          /\ ev'.policy_text = get_fallback_policy_text(TheClaim)
          /\ ctx'.policy_text = Some(get_fallback_policy_text(TheClaim))]_vars

\* C6: with no reasoner and a repair cost of 15000 or more, the recommendation
\* has settlement_amount 0 and deductible 500, and the Decision is not
\* covered, with deductible 500 and payout 0.
C6_OverLimitNotCovered ==
    (ValidInput /\ NoReasoner /\ Cost >= 15000) =>
        /\ ev.type = "RecommendationEvent" =>
              /\ ev.recommendation.settlement_amount = Some(0)
              /\ ev.recommendation.deductible = Some(500)
        /\ DecisionInFlight =>
              /\ ev.decision.covered = FALSE
              /\ ev.decision.deductible = 500
              /\ ev.decision.recommended_payout = 0
        /\ IsSome(result) => Get(result) = ev.decision

C6_Witness ==
    /\ ValidInput /\ NoReasoner /\ Cost = 15000
    /\ cfg.policy_retriever /\ IsSome(result)

\* C7 (as claimed): with no reasoner and a repair cost in 0 .. 14999, the
\* recommendation's settlement_amount is max(0, cost - 500) and the Decision
\* is covered, with deductible 500 and that payout, whatever the claim's
\* text fields hold.
C7_UnderLimitCovered ==
    (ValidInput /\ NoReasoner /\ Cost >= 0 /\ Cost < 15000) =>
        /\ ev.type = "RecommendationEvent" =>
              ev.recommendation.settlement_amount = Some(Max(0, Cost - 500))
        /\ DecisionInFlight =>
              /\ ev.decision.covered = TRUE
              /\ ev.decision.deductible = 500
              /\ ev.decision.recommended_payout = Max(0, Cost - 500)

\* the decision rule on a summary text, as the claim words it
RuleCovered(summary, settlement_amount) ==
    \/ /\ Contains(summary, << "covered" >>)
       /\ ~Contains(summary, << "not", " ", "covered" >>)
    \/ /\ IsSome(settlement_amount)
       /\ Get(settlement_amount) > 0

Finalizes == ev.type = "RecommendationEvent" /\ ev'.type = "DecisionEvent"

\* C8 (as claimed): the Decision's covered flag is the rule applied to the
\* recommendation_summary as it stands.
C8_CoveredRuleVerbatim ==
    [][Finalizes =>
         ev'.decision.covered =
            RuleCovered(ev.recommendation.recommendation_summary,
                        ev.recommendation.settlement_amount)]_vars

\* C8 (amended): the Decision's covered flag is the rule applied to the
\* lower-cased recommendation_summary, so that "covered" and "not covered"
\* are found whatever their letter case; nothing but the summary and the
\* settlement_amount enters it.
C8_CoveredRuleLowerCased ==
    [][Finalizes =>
         ev'.decision.covered =
            RuleCovered(Lower(ev.recommendation.recommendation_summary),
                        ev.recommendation.settlement_amount)]_vars

C8_Witness ==
    /\ ev.type = "DecisionEvent"
    /\ ev.decision.notes = Some(<< "Covered", " in full." >>)
    /\ ev.decision.recommended_payout = 0
    /\ ev.decision.covered

\* C9: finalize_decision never fails: with a RecommendationEvent in flight it
\* can run, and it returns a Decision whose deductible and payout are the
\* recommendation's where present and 0 where absent, and whose claim_number
\* is that of the claim this run loaded.
C9_DecisionFromRecommendation ==
    /\ []((ev.type = "RecommendationEvent" /\ outcome = "running")
            => ENABLED finalize_decision)
    /\ [][(ev.type = "RecommendationEvent" /\ executed' # executed) =>
            /\ ev'.type = "DecisionEvent"
            /\ outcome' = "running"
            /\ ev'.decision.deductible =
                  (IF IsSome(ev.recommendation.deductible)
                   THEN Get(ev.recommendation.deductible) ELSE 0)
            /\ ev'.decision.recommended_payout =
                  (IF IsSome(ev.recommendation.settlement_amount)
                   THEN Get(ev.recommendation.settlement_amount) ELSE 0)
            /\ ev'.decision.claim_number = TheClaim.claim_number]_vars

C9_Witness ==
    /\ ev.type = "DecisionEvent" /\ cfg.llm
    /\ ev.decision.deductible = 0
    /\ ev.decision.recommended_payout = -50

\* C10: in the policy text merged from retrieved documents, every identifier
\* retrieved contributes one text, the content of the last entry retrieved
\* with that identifier, and nothing else is in it but the separators.
C10_LastEntryPerIdentifier ==
    (IsSome(ctx.policy_text) /\ RetrievedIds # {}) =>
        LET text == Get(ctx.policy_text)
        IN  /\ \A t \in {"tA", "tB"} :
                 Count(text, t) =
                    Cardinality({id \in RetrievedIds :
                                    Get(lastRetrieved[id]).content = Some(t)})
            /\ Count(text, "\n\n") = Cardinality(RetrievedIds) - 1
            /\ Len(text) = 2 * Cardinality(RetrievedIds) - 1

C10_Witness ==
    /\ IsSome(ctx.policy_text) /\ overwritten
    /\ Cardinality(RetrievedIds) = 2

\* the return of retrieve_policy_text with its PolicyMatchedEvent
Matches == rpc = "join" /\ ev'.type = "PolicyMatchedEvent"

\* C11: when retrieve_policy_text returns, the policy text is the built-in
\* template with the claim's policy_number if there is no retriever or no
\* document was retrieved, and the text merged from the retrieved documents
\* otherwise; the text stored under "policy_text" is the event's text.
C11_TemplateOrMergedText ==
    [][Matches =>
         /\ ev'.policy_text =
               (IF ~cfg.policy_retriever \/ RetrievedIds = {}
                THEN get_fallback_policy_text(TheClaim)
                ELSE Join([i \in DOMAIN combined_docs |->
                              Get(combined_docs[i].content)], "\n\n"))
         /\ ~cfg.policy_retriever => RetrievedIds = {}
         /\ ctx'.policy_text = Some(ev'.policy_text)]_vars

C11_Witness ==
    /\ ev.type = "PolicyMatchedEvent" /\ cfg.policy_retriever
    /\ RetrievedIds = {}
    /\ ctx.policy_text = Some(get_fallback_policy_text(TheClaim))

\* C12 (as claimed): once the calls of the retriever are over in a run with a
\* retriever, it has been asked every query of the PolicyQueryEvent, once each
\* and in their order, and then once for the declarations page of the
\* claim's policy_number.
C12_EveryQueryThenDeclarations ==
    (rpc = "join" /\ cfg.policy_retriever) =>
        asked = ev.queries.queries \o << DeclarationsQuery(TheClaim) >>

\* generate_policy_queries has run in this step
GeneratesQueries == ev.type = "ClaimInfoEvent" /\ executed' # executed

\* what the reasoner did in the step, "absent" with no reasoner
LastLLMCall == IF cfg.llm THEN llmCalls'[Len(llmCalls')] ELSE "absent"

\* the 5 queries built from the claim's policy_number and its lower-cased
\* loss_description
TheFallbackQueries ==
    << << "Coverage conditions for " >> \o TheClaim.policy_number,
       << "Deductible application for collision damage" >>,
       << "Settlement amount calculation for vehicle damage" >>,
       << "Exclusions for " >> \o Lower(TheClaim.loss_description),
       << "Policy limits and coverage details" >> >>

\* C13 (as claimed): when generate_policy_queries has no reasoner, or the
\* reasoner raises or returns what is no PolicyQueries, the step returns a
\* PolicyQueryEvent with the 5 fallback queries; other queries are returned
\* only when the reasoner's call succeeded.
C13_FallbackQueriesOnAnyFailure ==
    [][GeneratesQueries =>
         /\ LastLLMCall \in {"absent", "raise", "malformed"} =>
               /\ ev'.type = "PolicyQueryEvent"
               /\ ev'.queries.queries = TheFallbackQueries
         /\ LastLLMCall = "ok" => ev'.type = "PolicyQueryEvent"]_vars

TimedOut == outcome = "WorkflowTimeoutError"

\* C14: a configured deadline can expire at every point of a run that has not
\* stopped, between steps and between the calls of a step; the run then ends
\* with the timeout error, no step runs after it, and no Decision is
\* returned, also when finalize_decision has computed one; a run with no
\* deadline never ends with the timeout error.
C14_TimeoutFailsTheRun ==
    /\ [](/\ (cfg.timeout /\ outcome = "running") => ENABLED timeout_expires
          /\ TimedOut => (cfg.timeout /\ result = None /\ stage # "Stopped"))
    /\ [][/\ ~TimedOut
          /\ TimedOut' => (outcome = "running" /\ UNCHANGED << ev, ctx, log, executed >>)]_vars

C14_Witness ==
    /\ TimedOut /\ ev.type = "DecisionEvent" /\ result = None
    /\ cfg.llm /\ cfg.policy_retriever

\* the claim source, seen from outside parse_claim
SourceMissing == ~input.exists
Renamed == RenameLegacy(input.data)
FieldMissing ==
    input.json /\ \E k \in RequiredStr \cup {"estimated_repair_cost"} :
                     k \notin DOMAIN Renamed
FieldOfWrongType ==
    /\ input.json /\ ~FieldMissing
    /\ \/ \E k \in RequiredStr : Renamed[k].t # "str"
       \/ Renamed["estimated_repair_cost"].t # "num"

\* load_claim_info has failed with this error and the run has ended there
LoadFailedWith(error) ==
    /\ outcome = error /\ stage = "Start" /\ executed = << "load_claim_info" >>
    /\ ctx.claim_info = None /\ llmCalls = << >> /\ RetrievedIds = {}
    /\ rpc = "idle" /\ asked = << >> /\ result = None

\* C15 (as claimed): once load_claim_info has run, the run has failed there
\* with the not-found error if the source is missing and with the validation
\* error if a required field is missing or of the wrong type.
C15_LoadFailsOnWrongType ==
    executed # << >> =>
        /\ SourceMissing => LoadFailedWith("FileNotFoundError")
        /\ (FieldMissing \/ FieldOfWrongType) => LoadFailedWith("ValueError")

\* the claim data of the source with every legacy name replaced by its
\* canonical name
Canonical(data) ==
    [k \in {c \in RequiredStr \cup {"estimated_repair_cost", "vehicle_details"} :
               c \in DOMAIN data \/ LegacyName(c) \in DOMAIN data} |->
        IF k \in DOMAIN data THEN data[k] ELSE data[LegacyName(k)]]

CanonicalSource == File(Canonical(input.data))

LegacyNamesUsed == {k \in Renamable : LegacyName(k) \in DOMAIN input.data}

Loaded == executed = << "load_claim_info" >>

\* C16: whichever of the four legacy names a claim source uses, if the source
\* written with the canonical names parses, load_claim_info parses the
\* source to the same ClaimInfo, and a second parse of the source gives
\* that ClaimInfo again.
C16_AliasInsensitive ==
    (Loaded /\ parse_claim(CanonicalSource).ok) =>
        /\ outcome = "running"
        /\ ctx.claim_info = Some(parse_claim(CanonicalSource).claim_info)
        /\ ev.claim_info = parse_claim(CanonicalSource).claim_info
        /\ parse_claim(input).ok
        /\ parse_claim(input).claim_info = ev.claim_info

C16_Witness ==
    /\ Loaded /\ LegacyNamesUsed = Renamable
    /\ ctx.claim_info = Some(ClaimInfo(ClaimData(PlainNumber, 500)))

\* C17 (as claimed): every ClaimInfo that parse_claim returns and
\* load_claim_info stores has its five required texts non-empty and a cost
\* of 0 or more, a source with an empty required text or a negative cost
\* being rejected with the validation error.
C17_RecordsAreWellFormed ==
    Loaded =>
        IF IsSome(ctx.claim_info)
        THEN /\ \A k \in RequiredStr : Get(ctx.claim_info)[k] # << >>
             /\ Get(ctx.claim_info).estimated_repair_cost >= 0
        ELSE outcome = "ValueError"

\* some step of the run took its fallback path
UsedFallback ==
    \/ ~cfg.llm
    \/ \E i \in DOMAIN llmCalls : llmCalls[i] = "raise"
    \/ ctx.policy_text = Some(get_fallback_policy_text(TheClaim))

\* the messages that tell of a capability that failed and of the fallback
FallbackNotices ==
    { ">> LLM query generation failed, using fallback: ",
      ">> LLM recommendation failed, using fallback: ",
      ">> Policy retrieval failed: " }

NoticesLogged == {i \in DOMAIN log : Head(log[i]) \in FallbackNotices}

\* C19 (as claimed): with verbose set, the log of a run that returned a
\* Decision and in which a step took its fallback path, the capability being
\* absent or having failed, holds a message telling of the fallback.
C19_FallbackIsLogged ==
    (cfg.verbose /\ outcome = "decision" /\ UsedFallback) => NoticesLogged # {}

\* the two runs of a pair, whichever the event loop is executing
Runs == {ThisRun(3 - Get(other).id), Get(other)}

ClaimOf(r) == parse_claim(r.input).claim_info

\* the Decisions the run returns when it runs alone and its capabilities
\* behave as they did: the one made from the reasoner's recommendation, from
\* the fallback recommendation if the reasoner is unset or raised
DecisionsAlone(r) ==
    IF r.cfg.llm /\ r.llmCalls[Len(r.llmCalls)] = "ok"
    THEN {ClaimDecision(ClaimOf(r), rec) : rec \in LLMRecommendations}
    ELSE {ClaimDecision(ClaimOf(r),
            generate_fallback_recommendation(ClaimOf(r), Get(r.ctx.policy_text)))}

\* the messages of the log that name a claim
ClaimsLogged(r) ==
    {Tail(r.log[i]) : i \in {j \in DOMAIN r.log : Head(r.log[j]) = ">> Loaded claim: "}}

\* C20: of two runs of one workflow object on two claims, interleaved in
\* any way, a step of one leaves the other as it was, its context and its
\* log included; the context and the log of a run hold its own claim only,
\* and the Decision a run returns is the one it returns when it runs alone
\* with its capabilities behaving the same.
C20_RunsAreIsolated ==
    /\ [][IF Get(other').id = Get(other).id
          THEN other' = other
          ELSE /\ [Get(other') EXCEPT !.id = 0] = ThisRun(0)
               /\ ThisRun(0)' = [Get(other) EXCEPT !.id = 0]]_vars
    /\ [](\A r \in Runs :
            /\ r.ctx.claim_info \in {None, Some(ClaimOf(r))}
            /\ ClaimsLogged(r) \subseteq {ClaimOf(r).claim_number}
            /\ r.outcome = "decision" =>
                  /\ IsSome(r.result)
                  /\ Get(r.result) \in DecisionsAlone(r)
                  /\ Get(r.result).claim_number = ClaimOf(r).claim_number)

C20_Witness ==
    /\ outcome = "decision" /\ cfg.policy_retriever /\ RetrievedIds # {}
    /\ Get(other).outcome = "running" /\ Get(other).rpc = "loop"
    /\ Get(other).qi = 2 /\ Get(other).combined_docs # << >>

\* of two runs that differ in verbose, the one with it and the one without
Traced == CHOOSE r \in Runs : r.cfg.verbose
Untraced == CHOOSE r \in Runs : ~r.cfg.verbose

\* the run has ended, and not by its deadline
Ended(r) == r.outcome \notin {"running", "WorkflowTimeoutError"}

\* both runs have ended, and the capabilities did in one what they did in
\* the other: each call of the reasoner ended the same way and the same
\* documents were retrieved
SameBehaviour ==
    /\ Ended(Traced) /\ Ended(Untraced)
    /\ Traced.llmCalls = Untraced.llmCalls
    /\ Traced.lastRetrieved = Untraced.lastRetrieved

\* C18 (as claimed): of two runs on one claim that differ in verbose only,
\* the one without it logs nothing and the one with it logs in every step it
\* executes; when the capabilities behaved the same in both, both executed
\* the same steps and ended the same way, with a Decision or with the same
\* error, and with the same Decision when it is the fallback's.
C18_TracingChangesNothing ==
    /\ Untraced.log = << >>
    /\ Len(Traced.log) >= Len(Traced.executed)
    /\ SameBehaviour =>
          /\ Traced.executed = Untraced.executed
          /\ Traced.outcome = Untraced.outcome
          /\ (~Traced.cfg.llm \/ Traced.llmCalls[Len(Traced.llmCalls)] = "raise")
                => Traced.result = Untraced.result

\* an Optional amount is absent or 0 or more
AbsentOrNonNegative(x) == IsSome(x) => Get(x) >= 0

\* C21 (as claimed): the recommendation that reaches finalize_decision, the
\* reasoner's or the fallback's, has a deductible and a settlement_amount
\* that are each absent or 0 or more, and the Decision in flight and the one
\* returned have a deductible and a recommended_payout of 0 or more.
C21_AmountsAreNonNegative ==
    /\ ev.type = "RecommendationEvent" =>
          /\ AbsentOrNonNegative(ev.recommendation.deductible)
          /\ AbsentOrNonNegative(ev.recommendation.settlement_amount)
    /\ DecisionInFlight =>
          /\ ev.decision.deductible >= 0
          /\ ev.decision.recommended_payout >= 0
    /\ IsSome(result) =>
          /\ Get(result).deductible >= 0
          /\ Get(result).recommended_payout >= 0

\* the texts of the ids in the order of ids, joined by a blank line
TextInOrder(ids) ==
    Join([i \in DOMAIN ids |-> Get(Get(lastRetrieved[ids[i]]).content)], "\n\n")

MatchesFromDocs == Matches /\ combined_docs # << >>

\* C22 (as claimed): the merged policy text is the last-retrieved texts of
\* the ids joined by a blank line, each at the place of the last entry
\* retrieved with its id.
C22_TextAtLastEntry ==
    [][MatchesFromDocs => ev'.policy_text = TextInOrder(idOrder.last)]_vars

\* C22 (amended): the merged policy text is the last-retrieved texts of the
\* ids joined by a blank line, each at the place of the first entry
\* retrieved with its id: an id retrieved again keeps its place and changes
\* its text.
C22_TextAtFirstEntry ==
    [][MatchesFromDocs => ev'.policy_text = TextInOrder(idOrder.first)]_vars

C22_Witness ==
    /\ rpc = "join" /\ Readable(combined_docs) /\ overwritten
    /\ idOrder.first = << "d1", "d2" >> /\ idOrder.last = << "d2", "d1" >>
    /\ PolicyTextOf(combined_docs, TheClaim) = << "tB", "\n\n", "tA" >>

\* C23: every Decision, in flight or returned, with a recommended_payout
\* above 0 has covered = TRUE, whatever the reasoner or the fallback
\* recommended.
C23_PayoutImpliesCovered ==
    /\ DecisionInFlight =>
          (ev.decision.recommended_payout > 0 => ev.decision.covered)
    /\ IsSome(result) =>
          (Get(result).recommended_payout > 0 => Get(result).covered)

\* a Decision returned with a payout that its summary alone would not cover
C23_Witness ==
    /\ IsSome(result)
    /\ Get(result).recommended_payout > 0
    /\ Get(result).covered
    /\ ~Contains(Lower(Get(result).notes), << "covered" >>)

\* the declarations lookup failing, every query before it having succeeded
DeclarationsFail == rpc = "loop" /\ retrFailed' = "declarations"

\* retrieve_policy_text returning or raising after that failure
EndsAfterDeclarationsFail == rpc = "join" /\ rpc' = "idle" /\ retrFailed = "declarations"

\* C24: when only the declarations lookup fails, the step goes on with the
\* documents of the queries kept and nothing logged, as after a lookup that
\* returned no document; the policy text is then the text merged from the
\* documents of the queries, and the built-in template only if the queries
\* returned none.
C24_DeclarationsFailureIsolated ==
    [][/\ DeclarationsFail =>
             /\ combined_docs' = combined_docs
             /\ qi = Len(ev.queries.queries) /\ retrFailed = "none"
             /\ rpc' = "join" /\ outcome' = "running"
             /\ UNCHANGED << lastRetrieved, overwritten, log, ev, ctx >>
       /\ EndsAfterDeclarationsFail =>
             /\ Matches <=> Readable(combined_docs)
             /\ Matches =>
                  ev'.policy_text =
                     IF RetrievedIds # {} THEN TextInOrder(idOrder.first)
                     ELSE get_fallback_policy_text(TheClaim)]_vars

\* the lookup has failed after queries that returned documents
C24_Witness ==
    /\ rpc = "join" /\ retrFailed = "declarations"
    /\ qi > 0 /\ Len(asked) = qi + 1
    /\ combined_docs # << >> /\ Readable(combined_docs)
=============================================================================
